---- MODULE Spec2Model ----
(***************************************************************************)
(* Synchronization and dispatch engine of the pull-request workflow        *)
(* scheduler: github/github_sync.py (state machine, dedupe and iteration   *)
(* gate, store, sync pass), github/get_open_prs.py (queue query layer),    *)
(* workflow/tasks.py, bot.py and agent/__init__.py (dispatch).             *)
(***************************************************************************)
EXTENDS Integers, Sequences, FiniteSets, TLC

(***************************************************************************)
(* Bounds of the model.                                                    *)
(***************************************************************************)
\* number of pull requests of the one configured repository
NumPRs == 1
NumQueued == 2
\* number of distinct head revisions a branch can point at
MaxSha == 2
\* length of the review lists handed to the evaluator as free inputs
MaxReviews == 2
\* number of sync() invocations that can be alive together
NumInvocations == 2
\* number of configured repositories in the runs of sync()
NumRepos == 2
\* number of issues of the repository in the runs with issues
NumIssues == 2
\* seconds the clock advances in one step, and the time the clock stops at
TickSeconds == 300
MaxClock == 900

(***************************************************************************)
(* Program constants.                                                      *)
(***************************************************************************)
\* workflow_config._DEFAULTS["max_iterations"], re-exported as MAX_ITERATIONS
MAX_ITERATIONS == 5
\* limit=10 passed by every scheduler query
QUERY_LIMIT == 10
\* get_open_prs.MAX_LIMIT, the cap of a query's limit
MAX_LIMIT == 200
\* the lock sync() takes and its duration in seconds
SYNC_LOCK_NAME == "github_sync_main"
SYNC_LOCK_TTL == 600

PRs == 1..NumPRs
Invocations == 1..NumInvocations
ShaName(i) == IF i = 1 THEN "sha1" ELSE IF i = 2 THEN "sha2" ELSE IF i = 3 THEN "sha3" ELSE "sha4"
Shas == {ShaName(i) : i \in 1..MaxSha}

\* Python None
None == "None"

\* Python truthiness of an Optional[str]: None and "" are falsy
Truthy(s) == s # None /\ s # ""

\* a or b or c on Optional[str]
Or3(a, b, c) == IF Truthy(a) THEN a ELSE IF Truthy(b) THEN b ELSE c

\* str.casefold on the strings the engine compares
Casefold(s) ==
    CASE s \in {"APPROVED", "Approved", "approved"} -> "approved"
      [] s \in {"CHANGES_REQUESTED", "changes_requested"} -> "changes_requested"
      [] s \in {"COMMENTED", "commented"} -> "commented"
      [] s \in {"DISMISSED"} -> "dismissed"
      [] s \in {"OPEN", "open"} -> "open"
      [] s \in {"CLOSED", "closed"} -> "closed"
      [] s \in {"MERGED", "merged"} -> "merged"
      [] s \in {"CONFLICTING", "conflicting"} -> "conflicting"
      [] s \in {"MERGEABLE"} -> "mergeable"
      [] s \in {"UNKNOWN"} -> "unknown"
      [] s \in {"DIRTY", "dirty"} -> "dirty"
      [] s \in {"CLEAN"} -> "clean"
      [] s \in {"UNSTABLE", "unstable"} -> "unstable"
      [] OTHER -> s

\* _casefold_eq(a, b): False when either side is None
_casefold_eq(a, b) == a # None /\ b # None /\ Casefold(a) = Casefold(b)

(***************************************************************************)
(* Review evaluator.  A review is [author, state, sha, at]; at is the      *)
(* submittedAt key.                                                        *)
(***************************************************************************)
Authors == {"A", "B", "X"}

RECURSIVE InsertByAt(_, _)
\* insert r after every element whose key is <= r.at (sorted() is stable)
InsertByAt(s, r) ==
    IF s = << >> THEN << r >>
    ELSE IF Head(s).at <= r.at THEN << Head(s) >> \o InsertByAt(Tail(s), r)
    ELSE << r >> \o s

\* faulty variant of sorted_reviews: the list is taken in the order given
sorted_reviews_unsorted(reviews) ==
    reviews

RECURSIVE sorted_reviews(_)
sorted_reviews(reviews) ==
    IF reviews = << >> THEN << >>
    ELSE InsertByAt(sorted_reviews(SubSeq(reviews, 1, Len(reviews) - 1)), reviews[Len(reviews)])

RECURSIVE latest_decision_any_author(_, _)
\* faulty variant of latest_decision: the author is not looked up in required
latest_decision_any_author(s, required) ==
    IF s = << >> THEN [a \in Authors |-> None]
    ELSE LET prev == latest_decision_any_author(SubSeq(s, 1, Len(s) - 1), required)
             r == s[Len(s)]
         IN IF _casefold_eq(r.state, "COMMENTED") THEN prev
            ELSE [prev EXCEPT ![r.author] = r.state]

RECURSIVE latest_decision(_, _)
\* the loop of evaluate_reviews over an already sorted list: reviewer -> state
latest_decision(s, required) ==
    IF s = << >> THEN [a \in Authors |-> None]
    ELSE LET prev == latest_decision(SubSeq(s, 1, Len(s) - 1), required)
             r == s[Len(s)]
         IN IF _casefold_eq(r.state, "COMMENTED") THEN prev
            ELSE IF r.author \in required THEN [prev EXCEPT ![r.author] = r.state]
            ELSE prev

RECURSIVE latest_review_sha(_, _)
latest_review_sha(s, required) ==
    IF s = << >> THEN None
    ELSE LET prev == latest_review_sha(SubSeq(s, 1, Len(s) - 1), required)
             r == s[Len(s)]
         IN IF _casefold_eq(r.state, "COMMENTED") THEN prev
            ELSE IF r.author \in required /\ Truthy(r.sha) THEN r.sha
            ELSE prev

\* an absent min_approvals (None), and with it an absent approval_rules
NoMin == -1
NoRules == [min_approvals |-> NoMin, required_reviewers |-> {}, veto_powers |-> {}]

\* approval_rules is [min_approvals, required_reviewers, veto_powers]; the
\* threshold branch is taken when approval_rules is given and its
\* min_approvals is not None.  required is the set of the reviewer list.
\* faulty variant of evaluate_reviews: the veto list of the policy is not
\* looked at
evaluate_reviews_no_veto(reviews, required, approval_rules) ==
    LET s == sorted_reviews(reviews)
        dec == latest_decision(s, required)
        approval_count == Cardinality({r \in required : _casefold_eq(dec[r], "APPROVED")})
        specific_ok == \A r \in approval_rules.required_reviewers : _casefold_eq(dec[r], "APPROVED")
        all_ok == IF approval_rules.min_approvals # NoMin
                  THEN approval_count >= approval_rules.min_approvals /\ specific_ok
                  ELSE \A r \in required : _casefold_eq(dec[r], "APPROVED")
    IN [all_required_approved |-> all_ok,
        any_changes_requested |-> \E r \in required : _casefold_eq(dec[r], "CHANGES_REQUESTED"),
        latest_review_sha |-> latest_review_sha(s, required),
        latest_decision_by_reviewer |-> dec]

evaluate_reviews(reviews, required, approval_rules) ==
    LET s == sorted_reviews(reviews)
        dec == latest_decision(s, required)
        approval_count == Cardinality({r \in required : _casefold_eq(dec[r], "APPROVED")})
        specific_ok == \A r \in approval_rules.required_reviewers : _casefold_eq(dec[r], "APPROVED")
        veto_blocked == \E r \in approval_rules.veto_powers : _casefold_eq(dec[r], "CHANGES_REQUESTED")
        all_ok == IF approval_rules.min_approvals # NoMin
                  THEN approval_count >= approval_rules.min_approvals /\ specific_ok /\ ~veto_blocked
                  ELSE \A r \in required : _casefold_eq(dec[r], "APPROVED")
    IN [all_required_approved |-> all_ok,
        any_changes_requested |-> \E r \in required : _casefold_eq(dec[r], "CHANGES_REQUESTED"),
        latest_review_sha |-> latest_review_sha(s, required),
        latest_decision_by_reviewer |-> dec]

(***************************************************************************)
(* State machine, iteration gate and dedupe gate.                          *)
(***************************************************************************)
\* faulty variant of HasConflicts: the DIRTY merge state is not looked at
HasConflicts_mergeable_only(pr_detail) ==
    _casefold_eq(pr_detail.mergeable, "CONFLICTING")

\* has_conflicts as computed in determine_pr_action and again in sync_repo
HasConflicts(pr_detail) ==
    _casefold_eq(pr_detail.mergeable, "CONFLICTING") \/ _casefold_eq(pr_detail.mergeStateStatus, "DIRTY")

\* faulty variant of ShaMatches: any baseline counts as a match
ShaMatches_any_baseline(head_sha, last_reviewed_sha) ==
    Truthy(last_reviewed_sha)

\* sha_matches = head_sha == last_reviewed_sha if last_reviewed_sha else False
ShaMatches(head_sha, last_reviewed_sha) ==
    IF Truthy(last_reviewed_sha) THEN head_sha = last_reviewed_sha ELSE FALSE

\* get_existing_item returning None: no row with that id
NoRow ==
    [exists |-> FALSE, github_state |-> None, status |-> None, action |-> None,
     head_sha |-> None, last_reviewed_sha |-> None,
     all_reviewers_approved |-> FALSE, any_changes_requested |-> FALSE,
     sha_matches_review |-> FALSE, has_conflicts |-> FALSE,
     marker |-> [k \in {"review", "fix", "merge", "conflict"} |-> None],
     iteration |-> 0, max_iterations |-> 0]

\* faulty variant of BaselineSha: head_sha is tried first in the or-chain
BaselineSha_head_first(ev, head_sha, existing) ==
    LET prior == IF existing.exists THEN existing.last_reviewed_sha ELSE None
    IN IF ev.all_required_approved /\ ev.latest_review_sha = head_sha THEN head_sha
       ELSE IF ev.any_changes_requested \/ ev.all_required_approved
            THEN Or3(head_sha, ev.latest_review_sha, prior)
       ELSE prior

\* the baseline: last_reviewed_sha of determine_pr_action
BaselineSha(ev, head_sha, existing) ==
    LET prior == IF existing.exists THEN existing.last_reviewed_sha ELSE None
    IN IF ev.all_required_approved /\ ev.latest_review_sha = head_sha THEN head_sha
       ELSE IF ev.any_changes_requested \/ ev.all_required_approved
            THEN Or3(ev.latest_review_sha, prior, head_sha)
       ELSE prior

\* pr_detail is [state, headRefOid, mergeable, mergeStateStatus, reviews];
\* existing is NoRow or a store row
determine_pr_action(pr_detail, existing, required_reviewers, approval_rules) ==
    LET head_sha == pr_detail.headRefOid
        ev == evaluate_reviews(pr_detail.reviews, required_reviewers, approval_rules)
        has_conflicts == HasConflicts(pr_detail)
        last_reviewed_sha == BaselineSha(ev, head_sha, existing)
        sha_matches == ShaMatches(head_sha, last_reviewed_sha)
        Ret(st, ac, ok, cr) ==
            [status |-> st, action |-> ac, all_approved |-> ok, any_changes_requested |-> cr,
             last_reviewed_sha |-> last_reviewed_sha]
    IN IF _casefold_eq(pr_detail.state, "MERGED")
       THEN Ret("merged", "none", ev.all_required_approved, ev.any_changes_requested)
       ELSE IF has_conflicts
       THEN IF ev.all_required_approved
            THEN Ret("conflicting", "needs_conflict_resolution", ev.all_required_approved, ev.any_changes_requested)
            ELSE Ret("conflicting", "none", ev.all_required_approved, ev.any_changes_requested)
       ELSE IF ev.all_required_approved
       THEN IF sha_matches
            THEN Ret("approved", "ready_to_merge", TRUE, ev.any_changes_requested)
            ELSE Ret("pending_review", "needs_review", TRUE, ev.any_changes_requested)
       ELSE IF ev.any_changes_requested
       THEN IF sha_matches
            THEN Ret("changes_requested", "needs_fix", FALSE, TRUE)
            ELSE Ret("pending_review", "needs_review", FALSE, TRUE)
       ELSE Ret("pending_review", "needs_review", FALSE, FALSE)

\* faulty variant of update_iteration: the cap compared with > instead of >=
update_iteration_off_by_one(existing, action, max_iterations) ==
    LET iteration == IF existing.exists THEN existing.iteration ELSE 0
    IN IF action # "needs_fix" THEN action
       ELSE IF iteration > max_iterations THEN "max_iterations_reached"
       ELSE action

\* faulty variant of update_iteration: the cap is never applied
update_iteration_uncapped(existing, action, max_iterations) ==
    action

\* returns the action; the iteration it also returns is existing.iteration
update_iteration(existing, action, max_iterations) ==
    LET iteration == IF existing.exists THEN existing.iteration ELSE 0
    IN IF action # "needs_fix" THEN action
       ELSE IF iteration >= max_iterations THEN "max_iterations_reached"
       ELSE action

\* faulty variant of apply_dispatch_dedupe: a marker suppresses its action
\* whatever the head revision is
apply_dispatch_dedupe_sticky(action, head_sha, last_review_dispatch_sha, last_fix_dispatch_sha, last_merge_dispatch_sha, last_conflict_dispatch_sha) ==
    IF action = "needs_review" /\ Truthy(last_review_dispatch_sha) THEN "none"
    ELSE IF action = "needs_fix" /\ Truthy(last_fix_dispatch_sha) THEN "none"
    ELSE IF action = "ready_to_merge" /\ Truthy(last_merge_dispatch_sha) THEN "none"
    ELSE IF action = "needs_conflict_resolution" /\ Truthy(last_conflict_dispatch_sha) THEN "none"
    ELSE action

\* the gate has four marker parameters; a status-fix marker has no parameter
\* and no branch
apply_dispatch_dedupe(action, head_sha, last_review_dispatch_sha, last_fix_dispatch_sha, last_merge_dispatch_sha, last_conflict_dispatch_sha) ==
    IF action = "needs_review" /\ Truthy(head_sha) /\ head_sha = last_review_dispatch_sha THEN "none"
    ELSE IF action = "needs_fix" /\ Truthy(head_sha) /\ head_sha = last_fix_dispatch_sha THEN "none"
    ELSE IF action = "ready_to_merge" /\ Truthy(head_sha) /\ head_sha = last_merge_dispatch_sha THEN "none"
    ELSE IF action = "needs_conflict_resolution" /\ Truthy(head_sha) /\ head_sha = last_conflict_dispatch_sha THEN "none"
    ELSE action

(***************************************************************************)
(* Store rows (workflow_items) and the PR row a sync pass builds.          *)
(***************************************************************************)
\* the marker column each dispatch type of mark_dispatched writes
MarkerKinds == DOMAIN NoRow.marker

\* faulty variant of PrRow: a pass that finds needs_fix counts an iteration
PrRow_counts_pass(pr_state, pr_detail, existing, required_reviewers, approval_rules) ==
    LET r == determine_pr_action(pr_detail, existing, required_reviewers, approval_rules)
        head_sha == pr_detail.headRefOid
        prev(k) == IF existing.exists THEN existing.marker[k] ELSE None
        gated == update_iteration(existing, r.action, MAX_ITERATIONS)
        action == apply_dispatch_dedupe(gated, head_sha, prev("review"), prev("fix"),
                                        prev("merge"), prev("conflict"))
    IN [exists |-> TRUE,
        github_state |-> pr_state,
        status |-> r.status,
        action |-> action,
        head_sha |-> head_sha,
        last_reviewed_sha |-> r.last_reviewed_sha,
        all_reviewers_approved |-> r.all_approved,
        any_changes_requested |-> r.any_changes_requested,
        sha_matches_review |-> ShaMatches(head_sha, r.last_reviewed_sha),
        has_conflicts |-> HasConflicts(pr_detail),
        marker |-> [k \in MarkerKinds |-> prev(k)],
        iteration |-> (IF existing.exists THEN existing.iteration ELSE 0) + (IF r.action = "needs_fix" THEN 1 ELSE 0),
        max_iterations |-> MAX_ITERATIONS]

\* faulty variant of PrRow: the dispatch markers start again from null
PrRow_drops_markers(pr_state, pr_detail, existing, required_reviewers, approval_rules) ==
    LET r == determine_pr_action(pr_detail, existing, required_reviewers, approval_rules)
        head_sha == pr_detail.headRefOid
        action == apply_dispatch_dedupe(update_iteration(existing, r.action, MAX_ITERATIONS),
                                        head_sha, None, None, None, None)
    IN [exists |-> TRUE,
        github_state |-> pr_state,
        status |-> r.status,
        action |-> action,
        head_sha |-> head_sha,
        last_reviewed_sha |-> r.last_reviewed_sha,
        all_reviewers_approved |-> r.all_approved,
        any_changes_requested |-> r.any_changes_requested,
        sha_matches_review |-> ShaMatches(head_sha, r.last_reviewed_sha),
        has_conflicts |-> HasConflicts(pr_detail),
        marker |-> [k \in MarkerKinds |-> None],
        iteration |-> IF existing.exists THEN existing.iteration ELSE 0,
        max_iterations |-> MAX_ITERATIONS]

\* the row sync_repo builds for a PR and hands to save_item; pr_state is the
\* state field of the entry in the open-PR list
PrRow(pr_state, pr_detail, existing, required_reviewers, approval_rules) ==
    LET r == determine_pr_action(pr_detail, existing, required_reviewers, approval_rules)
        head_sha == pr_detail.headRefOid
        prev(k) == IF existing.exists THEN existing.marker[k] ELSE None
        gated == update_iteration(existing, r.action, MAX_ITERATIONS)
        action == apply_dispatch_dedupe(gated, head_sha, prev("review"), prev("fix"),
                                        prev("merge"), prev("conflict"))
    IN [exists |-> TRUE,
        github_state |-> pr_state,
        status |-> r.status,
        action |-> action,
        head_sha |-> head_sha,
        last_reviewed_sha |-> r.last_reviewed_sha,
        all_reviewers_approved |-> r.all_approved,
        any_changes_requested |-> r.any_changes_requested,
        sha_matches_review |-> ShaMatches(head_sha, r.last_reviewed_sha),
        has_conflicts |-> HasConflicts(pr_detail),
        marker |-> [k \in MarkerKinds |-> prev(k)],
        iteration |-> IF existing.exists THEN existing.iteration ELSE 0,
        max_iterations |-> MAX_ITERATIONS]

\* the UPDATE statement of mark_dispatched applied to a row
MarkedRow(row, dispatch_type, head_sha) ==
    IF dispatch_type = "fix"
    THEN [row EXCEPT !.marker["fix"] = head_sha, !.iteration = row.iteration + 1]
    ELSE IF dispatch_type \in {"review", "merge", "conflict"}
    THEN [row EXCEPT !.marker[dispatch_type] = head_sha]
    ELSE row

\* faulty variant of ReconciledRow: github_state gets a label of its own
ReconciledRow_own_label(row, actual_state) ==
    [row EXCEPT !.github_state = "gone", !.status = "closed", !.action = "none"]

\* faulty variant of ReconciledRow: the action column is left as it was
ReconciledRow_keeps_action(row, actual_state) ==
    IF _casefold_eq(actual_state, "MERGED")
    THEN [row EXCEPT !.github_state = "merged", !.status = "merged"]
    ELSE [row EXCEPT !.github_state = "closed", !.status = "closed"]

\* the reconciliation UPDATE of sync_repo applied to a row
ReconciledRow(row, actual_state) ==
    IF _casefold_eq(actual_state, "MERGED")
    THEN [row EXCEPT !.github_state = "merged", !.status = "merged", !.action = "none"]
    ELSE [row EXCEPT !.github_state = "closed", !.status = "closed", !.action = "none"]

\* an issue without a row
NoIssueRow == [exists |-> FALSE, github_state |-> None, status |-> None, action |-> None, iteration |-> 0]

\* determine_issue_action(issue, existing, linked_pr_number): (status, action)
determine_issue_action(issue, existing, linked_pr_number) ==
    IF _casefold_eq(issue.state, "closed") THEN [status |-> "closed", action |-> "none"]
    ELSE IF linked_pr_number THEN [status |-> "pr_created", action |-> "none"]
    ELSE IF existing.exists /\ existing.status = "in_progress" THEN [status |-> "in_progress", action |-> "none"]
    ELSE [status |-> "open", action |-> "needs_dev"]

\* the row sync_repo builds for an issue of the open list; linked tells
\* whether find_linked_prs finds an open PR that closes the issue
IssueRow(issue, existing, linked) ==
    LET r == determine_issue_action(issue, existing, linked)
    IN [exists |-> TRUE,
        github_state |-> issue.state,
        status |-> r.status,
        action |-> r.action,
        iteration |-> IF existing.exists THEN existing.iteration ELSE 0]

RECURSIVE find_linked_prs(_, _)
\* find_linked_prs(prs, issue_number): the number of the first open PR whose
\* title or body holds closes/fixes/resolves #issue_number, and without one
\* 0, which the caller tests as it tests None; a PR text is modelled by the
\* issue numbers it holds a closing keyword for
find_linked_prs(prs, issue_number) ==
    IF prs = << >> THEN 0
    ELSE IF issue_number \in Head(prs).title \cup Head(prs).body THEN Head(prs).number
    ELSE find_linked_prs(Tail(prs), issue_number)

(***************************************************************************)
(* Configuration of the one repository.                                    *)
(***************************************************************************)
\* load_reviewers_for_repo(repo): the enabled reviewer logins
REQUIRED_REVIEWERS == {"A"}
\* load_approval_rules_for_repo(repo)
APPROVAL_RULES == NoRules
\* get_open_prs.DEFAULT_MAX_ITERATIONS, the cap of the max_iterations_reached queue
DEFAULT_MAX_ITERATIONS == 5

(***************************************************************************)
(* State.                                                                  *)
(***************************************************************************)
VARIABLES
    gh,         \* upstream: PR -> [state, headRefOid, mergeable, mergeStateStatus, reviews]
    store,      \* workflow_items: PR -> row
    sync,       \* the running sync_repo: position and locals
    sched,      \* the running dispatch loop: driver, queue being drained, remaining items
    pending,    \* PR -> the dispatch [kind, sha] whose worker has not yet recorded its marker
    hist,       \* history of successful dispatches, recorded when hist.on
    pin,        \* inputs of the pure functions
    pout,       \* their results
    locks,      \* locks table: set of rows [name, owner, expires_at]
    now,        \* wall clock, in seconds
    procs,      \* invocation of sync() -> its position and locals
    sync_log,   \* sync_log table: sequence of rows
    issues,     \* upstream: issue -> [state, linked]
    irows       \* workflow_items of type issue: issue -> row

\* the state sync() adds around sync_repo
lockvars == << locks, now, procs, sync_log >>

\* the issues of the repository and their rows
issuevars == << issues, irows >>

vars == << gh, store, sync, sched, pending, hist, pin, pout, locks, now, procs, sync_log, issues, irows >>

NoSpawn == [kind |-> None, sha |-> None]
SyncIdle == [pc |-> "idle", open |-> {}, issues |-> {}, todo |-> << >>, cur |-> 0, existing |-> NoRow]
SchedIdle == [driver |-> "idle", stage |-> None, queue |-> << >>]
NoPure == [f |-> None]
\* locals of a sync() invocation: lock_owner is the invocation, todo the
\* repositories the loop has not reached, errors and total_synced as in the
\* code; called lists the repositories sync_repo was called for, raised
\* those whose call raised, expires_at the expiry of the lock it inserted,
\* released what its release_lock call returned (sync() drops the value)
NoProc == [pc |-> "off", todo |-> << >>, errors |-> << >>, total_synced |-> 0, started_at |-> 0, called |-> << >>, raised |-> {}, expires_at |-> -1, released |-> FALSE]

\* the pull requests of the repository
Items == DOMAIN store
\* the issues of the repository
IssueIds == DOMAIN issues

RECURSIVE SetToSeq(_)
\* ascending sequence of a set of PR numbers
SetToSeq(S) ==
    IF S = {} THEN << >>
    ELSE LET m == CHOOSE x \in S : \A y \in S : x <= y IN << m >> \o SetToSeq(S \ {m})

RECURSIVE Stamp(_)
\* the submittedAt keys of a fetched review list: GitHub stamps reviews in
\* the order they were submitted
Stamp(rs) ==
    IF rs = << >> THEN << >>
    ELSE Stamp(SubSeq(rs, 1, Len(rs) - 1)) \o
         << [author |-> rs[Len(rs)].author, state |-> rs[Len(rs)].state,
             sha |-> rs[Len(rs)].sha, at |-> Len(rs)] >>

\* fetch_pr_detail(repo, n)
fetch_pr_detail(p) ==
    [state |-> gh[p].state, headRefOid |-> gh[p].headRefOid, mergeable |-> gh[p].mergeable,
     mergeStateStatus |-> gh[p].mergeStateStatus, reviews |-> Stamp(gh[p].reviews)]

\* a freshly opened PR
NewPR ==
    [state |-> "OPEN", headRefOid |-> "sha1", mergeable |-> "MERGEABLE",
     mergeStateStatus |-> "CLEAN", reviews |-> << >>]

SysInit(prs, history) ==
    /\ gh = [p \in prs |-> NewPR]
    /\ store = [p \in prs |-> NoRow]
    /\ sync = SyncIdle
    /\ sched = SchedIdle
    /\ pending = [p \in prs |-> NoSpawn]
    /\ hist = [on |-> history,
               last |-> [p \in prs |-> [kind |-> None, sha |-> None, n |-> 0]]]
    /\ locks = {}
    /\ now = 0
    /\ procs = [a \in Invocations |-> NoProc]
    /\ sync_log = << >>
    /\ issues = << >>
    /\ irows = << >>

Init ==
    /\ SysInit(PRs, FALSE)
    /\ pin = NoPure
    /\ pout = NoPure

(***************************************************************************)
(* Upstream events.                                                        *)
(***************************************************************************)
\* a commit is pushed (or force-pushed) to the PR branch
Push(p) ==
    /\ gh[p].state = "OPEN"
    /\ \E h \in Shas \ {gh[p].headRefOid} : gh' = [gh EXCEPT ![p].headRefOid = h]
    /\ hist' = [hist EXCEPT !.last[p] = [kind |-> None, sha |-> None, n |-> 0]]
    /\ UNCHANGED << store, sync, sched, pending, pin, pout, lockvars, issuevars >>

RECURSIVE Without(_, _)
\* a review list without the reviews of one author
Without(rs, a) ==
    IF rs = << >> THEN << >>
    ELSE IF Head(rs).author = a THEN Without(Tail(rs), a)
    ELSE << Head(rs) >> \o Without(Tail(rs), a)

\* a required reviewer submits a decisive review on the current head; the
\* author's superseded review is dropped from the list
SubmitReview(p) ==
    /\ gh[p].state = "OPEN"
    /\ \E a \in REQUIRED_REVIEWERS, st \in {"APPROVED", "CHANGES_REQUESTED"} :
          LET r == [author |-> a, state |-> st, sha |-> gh[p].headRefOid]
              rs == gh[p].reviews
          IN /\ (IF rs = << >> THEN TRUE ELSE rs[Len(rs)] # r)
             /\ gh' = [gh EXCEPT ![p].reviews = Without(rs, a) \o << r >>]
    /\ UNCHANGED << store, sync, sched, pending, hist, pin, pout, lockvars, issuevars >>

\* the branch becomes conflicting with its base, or mergeable again
SetMergeable(p) ==
    /\ gh[p].state = "OPEN"
    /\ \/ /\ gh[p].mergeable = "MERGEABLE"
          /\ gh' = [gh EXCEPT ![p].mergeable = "CONFLICTING", ![p].mergeStateStatus = "DIRTY"]
       \/ /\ gh[p].mergeable = "CONFLICTING"
          /\ gh' = [gh EXCEPT ![p].mergeable = "MERGEABLE", ![p].mergeStateStatus = "CLEAN"]
    /\ UNCHANGED << store, sync, sched, pending, hist, pin, pout, lockvars, issuevars >>

\* the PR is closed or merged by somebody, or a closed PR is reopened
SetState(p) ==
    /\ \/ /\ gh[p].state = "OPEN"
          /\ \E st \in {"CLOSED", "MERGED"} : gh' = [gh EXCEPT ![p].state = st]
       \/ /\ gh[p].state = "CLOSED"
          /\ gh' = [gh EXCEPT ![p].state = "OPEN"]
    /\ UNCHANGED << store, sync, sched, pending, hist, pin, pout, lockvars, issuevars >>

\* the issue is closed by somebody, or a closed issue is reopened
SetIssueState(i) ==
    /\ issues' = [issues EXCEPT ![i].state = IF @ = "OPEN" THEN "CLOSED" ELSE "OPEN"]
    /\ UNCHANGED << gh, store, sync, sched, pending, hist, pin, pout, lockvars, irows >>

\* an open PR whose title or body closes the issue appears in the open-PR
\* list, or leaves it
LinkIssue(i) ==
    /\ issues' = [issues EXCEPT ![i].linked = ~@]
    /\ UNCHANGED << gh, store, sync, sched, pending, hist, pin, pout, lockvars, irows >>

(***************************************************************************)
(* sync_repo: the issue loop, the PR loop and the reconciliation.          *)
(***************************************************************************)
\* fetch_prs(repo), fetch_issues(repo) and the loop over the open issues,
\* which saves the row of each; the issue rows have no other writer
SyncStart ==
    /\ sync.pc = "idle"
    /\ LET open == {p \in Items : gh[p].state = "OPEN"}
           iopen == {i \in IssueIds : issues[i].state = "OPEN"}
       IN /\ sync' = [SyncIdle EXCEPT !.pc = "prs", !.open = open, !.issues = iopen, !.todo = SetToSeq(open)]
          /\ irows' = [i \in IssueIds |->
                         IF i \in iopen THEN IssueRow(issues[i], irows[i], issues[i].linked) ELSE irows[i]]
    /\ UNCHANGED << gh, store, sched, pending, hist, pin, pout, lockvars, issues >>

\* existing = get_existing_item(item_id) for the next PR of the list
SyncRead ==
    /\ sync.pc = "prs"
    /\ sync.todo # << >>
    /\ sync' = [sync EXCEPT !.pc = "save", !.cur = Head(sync.todo), !.existing = store[Head(sync.todo)]]
    /\ UNCHANGED << gh, store, sched, pending, hist, pin, pout, lockvars, issuevars >>

\* fetch_pr_detail, state machine, gates and save_item(item), which is an
\* INSERT OR REPLACE of the whole row built from existing
SyncSave ==
    /\ sync.pc = "save"
    /\ store' = [store EXCEPT ![sync.cur] =
                    PrRow("OPEN", fetch_pr_detail(sync.cur), sync.existing,
                          REQUIRED_REVIEWERS, APPROVAL_RULES)]
    /\ sync' = [sync EXCEPT !.pc = "prs", !.todo = Tail(sync.todo), !.cur = 0, !.existing = NoRow]
    /\ UNCHANGED << gh, sched, pending, hist, pin, pout, lockvars, issuevars >>

\* rows stored as open that are missing from the fetched list; the detail
\* fetch of a row may fail, which counts as CLOSED
SyncReconcile ==
    /\ sync.pc = "prs"
    /\ sync.todo = << >>
    /\ LET gone == {p \in Items : store[p].exists /\ Casefold(store[p].github_state) = "open"
                                   /\ p \notin sync.open}
       IN \E failed \in SUBSET gone :
             store' = [p \in Items |->
                         IF p \in gone
                         THEN ReconciledRow(store[p], IF p \in failed THEN "CLOSED" ELSE gh[p].state)
                         ELSE store[p]]
    /\ sync' = SyncIdle
    /\ UNCHANGED << gh, sched, pending, hist, pin, pout, lockvars, issuevars >>

(***************************************************************************)
(* Queue query layer (PRQueueClient.query).                                *)
(***************************************************************************)
VALID_ACTIONS ==
    {"needs_review", "needs_fix", "needs_conflict_resolution", "ready_to_merge", "max_iterations_reached"}

\* DISPATCH_SHA_COL_MAP: the marker column compared by the dedup filter
DISPATCH_SHA_COL_MAP(action) ==
    CASE action = "needs_review" -> "review"
      [] action = "needs_fix" -> "fix"
      [] action = "ready_to_merge" -> "merge"
      [] action = "needs_conflict_resolution" -> "conflict"
      [] OTHER -> None

\* head_sha = str(row[head_sha_col]) if row[head_sha_col] else ""
QueueHeadSha(row) == IF Truthy(row.head_sha) THEN row.head_sha ELSE ""

\* faulty variant of _dispatch_dedup_skip: no row is skipped
_dispatch_dedup_skip_never(action, head_sha, row) ==
    FALSE

_dispatch_dedup_skip(action, head_sha, row) ==
    IF head_sha = "" THEN FALSE
    ELSE IF DISPATCH_SHA_COL_MAP(action) = None THEN FALSE
    ELSE row.marker[DISPATCH_SHA_COL_MAP(action)] # None /\ row.marker[DISPATCH_SHA_COL_MAP(action)] = head_sha

\* get_open_prs.load_config: defaultMaxIterations of the queue's config
\* file when the file sets it, DEFAULT_MAX_ITERATIONS when it does not
default_max_iterations ==
    IF pin.f = "load_config" THEN pin.defaultMaxIterations ELSE DEFAULT_MAX_ITERATIONS

\* faulty variant of QueueScanned: the SELECT has no test of the state column
QueueScanned_any_state(action) ==
    {p \in Items : /\ store[p].exists
                   /\ IF action = "max_iterations_reached"
                      THEN store[p].iteration >= default_max_iterations
                      ELSE store[p].action = action}

\* the rows the SELECT of _execute returns
QueueScanned(action) ==
    {p \in Items : /\ store[p].exists
                   /\ Casefold(store[p].github_state) = "open"
                   /\ IF action = "max_iterations_reached"
                      THEN store[p].iteration >= default_max_iterations
                      ELSE store[p].action = action}

\* the rows left by the exclude_already_dispatched filter (default true)
QueueEligible(action) ==
    {p \in QueueScanned(action) : ~_dispatch_dedup_skip(action, QueueHeadSha(store[p]), store[p])}

\* the prs of the result: [pr, headSha], in id order, cut at limit
Query(action, limit) ==
    LET all == SetToSeq(QueueEligible(action))
        cut == IF Len(all) > limit THEN SubSeq(all, 1, limit) ELSE all
    IN [i \in 1..Len(cut) |-> [pr |-> cut[i], headSha |-> QueueHeadSha(store[cut[i]])]]

\* the repositories of config/repos.json
RepoNames == {"r1", "r2"}

\* _effective_repos(spec, cfg): the requested repos when the query names
\* any, else the repos the configuration enables
_effective_repos(requested, enabled) ==
    IF requested # {} THEN requested ELSE {r \in DOMAIN enabled : enabled[r]}

\* the repositories whose rows pass the repo test of _execute, which is
\* skipped when the effective list is empty
ServedRepos(requested, enabled) ==
    LET effective_repos == _effective_repos(requested, enabled)
    IN {repo \in RepoNames : ~(effective_repos # {} /\ repo \notin effective_repos)}

\* PRQueueClient.query(action, limit): the ValueError it raises for an
\* action outside VALID_ACTIONS or a limit that is not positive, or the
\* result set
query(action, limit) ==
    IF action \notin VALID_ACTIONS THEN [raised |-> TRUE, prs |-> << >>]
    ELSE IF limit <= 0 THEN [raised |-> TRUE, prs |-> << >>]
    ELSE [raised |-> FALSE, prs |-> Query(action, IF limit < MAX_LIMIT THEN limit ELSE MAX_LIMIT)]

(***************************************************************************)
(* Dispatch.                                                               *)
(***************************************************************************)
\* the queue each dispatch kind drains
QueueOf(kind) ==
    CASE kind = "review" -> "needs_review"
      [] kind = "fix" -> "needs_fix"
      [] kind = "conflict" -> "needs_conflict_resolution"
      [] kind = "merge" -> "ready_to_merge"

\* history of a successful dispatch of kind for an item: n counts the
\* successive dispatches of the same kind at the same revision of the PR
Recorded(item, kind) ==
    LET last == hist.last[item.pr]
        again == last.kind = kind /\ last.sha = item.headSha
    IN IF ~hist.on THEN hist
       ELSE [hist EXCEPT
               !.last[item.pr] = [kind |-> kind, sha |-> item.headSha,
                                  n |-> IF ~again THEN 1
                                        ELSE IF last.n <= MAX_ITERATIONS THEN last.n + 1
                                        ELSE last.n]]

\* the dispatch loop after one item: the rest of the queue, or the end
Rest == IF Len(sched.queue) > 1 THEN [sched EXCEPT !.queue = Tail(sched.queue)]
        ELSE IF sched.driver = "bot" THEN [sched EXCEPT !.queue = << >>]
        ELSE SchedIdle

\* tasks.review_open_prs, fix_open_prs, fix_pr_merge_conflicts, merge_prs:
\* the query at the top of the function
TaskStart ==
    /\ sched.driver = "idle"
    /\ \E kind \in {"review", "fix", "conflict", "merge"} :
          /\ Query(QueueOf(kind), QUERY_LIMIT) # << >>
          /\ sched' = [driver |-> "task", stage |-> kind, queue |-> Query(QueueOf(kind), QUERY_LIMIT)]
    /\ UNCHANGED << gh, store, sync, pending, hist, pin, pout, lockvars, issuevars >>

\* one iteration of the loop of review_open_prs, fix_open_prs or
\* fix_pr_merge_conflicts: spawn_agent returns, or raises out of the
\* function.  No marker is written; the worker of a review or conflict
\* dispatch is left to record it.
TaskSpawn ==
    /\ sched.driver = "task"
    /\ sched.stage \in {"review", "fix", "conflict"}
    /\ LET item == Head(sched.queue)
       IN \/ /\ hist' = Recorded(item, sched.stage)
             /\ pending' = IF sched.stage = "fix" THEN pending
                           ELSE [pending EXCEPT ![item.pr] = [kind |-> sched.stage, sha |-> item.headSha]]
             /\ sched' = Rest
          \/ /\ sched' = SchedIdle
             /\ UNCHANGED << pending, hist >>
    /\ UNCHANGED << gh, store, sync, pin, pout, lockvars, issuevars >>

\* one iteration of the loop of merge_prs: merge_pr reports success or failure
TaskMerge ==
    /\ sched.driver = "task"
    /\ sched.stage = "merge"
    /\ LET item == Head(sched.queue)
       IN \/ /\ gh[item.pr].state = "OPEN"
             /\ gh[item.pr].mergeable = "MERGEABLE"
             /\ gh' = [gh EXCEPT ![item.pr].state = "MERGED"]
             /\ hist' = Recorded(item, "merge")
             /\ pending' = [pending EXCEPT ![item.pr] = [kind |-> "merge", sha |-> item.headSha]]
          \/ UNCHANGED << gh, pending, hist >>
    /\ sched' = Rest
    /\ UNCHANGED << store, sync, pin, pout, lockvars, issuevars >>

\* agent/__init__.py __main__: the needs_fix query handed to run_dispatch_cycle
CycleStart ==
    /\ sched.driver = "idle"
    /\ Query("needs_fix", QUERY_LIMIT) # << >>
    /\ sched' = [driver |-> "cycle", stage |-> "fix", queue |-> Query("needs_fix", QUERY_LIMIT)]
    /\ UNCHANGED << gh, store, sync, pending, hist, pin, pout, lockvars, issuevars >>

\* one iteration of run_dispatch_cycle: spawn, then mark_pr_dispatched; an
\* exception of either call is caught and the loop goes on
CycleItem ==
    /\ sched.driver = "cycle"
    /\ LET item == Head(sched.queue)
       IN \/ /\ hist' = Recorded(item, "fix")
             /\ store' = [store EXCEPT ![item.pr] = MarkedRow(@, "fix", item.headSha)]
          \/ /\ hist' = Recorded(item, "fix")
             /\ UNCHANGED store
          \/ UNCHANGED << store, hist >>
    /\ sched' = Rest
    /\ UNCHANGED << gh, sync, pending, pin, pout, lockvars, issuevars >>

\* mark_dispatched(item_id, dispatch_type, head_sha), called by the worker
\* of a dispatch after its agent was spawned
MarkDispatched(p) ==
    /\ pending[p].kind # None
    /\ store' = [store EXCEPT ![p] = MarkedRow(@, pending[p].kind, pending[p].sha)]
    /\ pending' = [pending EXCEPT ![p] = NoSpawn]
    /\ UNCHANGED << gh, sync, sched, hist, pin, pout, lockvars, issuevars >>

\* Bot.on_run_loop: the queues in the order the loop queries them
BotNextStage(stage) ==
    CASE stage = "review" -> "fix"
      [] stage = "fix" -> "conflict"
      [] stage = "conflict" -> "merge"
      [] OTHER -> None

BotStart ==
    /\ sched.driver = "idle"
    /\ sched' = [driver |-> "bot", stage |-> "review", queue |-> Query("needs_review", QUERY_LIMIT)]
    /\ UNCHANGED << gh, store, sync, pending, hist, pin, pout, lockvars, issuevars >>

\* one iteration of the loop of the current queue: spawn_fix_agent returns
\* or raises out of on_run_loop; the merge loop only logs
BotItem ==
    /\ sched.driver = "bot"
    /\ sched.queue # << >>
    /\ LET item == Head(sched.queue)
       IN \/ /\ sched.stage \in {"review", "fix", "conflict"}
             /\ hist' = Recorded(item, sched.stage)
             /\ pending' = IF sched.stage = "fix" THEN pending
                           ELSE [pending EXCEPT ![item.pr] = [kind |-> sched.stage, sha |-> item.headSha]]
             /\ sched' = Rest
          \/ /\ sched.stage \in {"review", "fix", "conflict"}
             /\ sched' = SchedIdle
             /\ UNCHANGED << pending, hist >>
          \/ /\ sched.stage = "merge"
             /\ sched' = Rest
             /\ UNCHANGED << pending, hist >>
    /\ UNCHANGED << gh, store, sync, pin, pout, lockvars, issuevars >>

\* the loop of the current queue is over: the next query, or the end
BotAdvance ==
    /\ sched.driver = "bot"
    /\ sched.queue = << >>
    /\ sched' = IF BotNextStage(sched.stage) = None THEN SchedIdle
                ELSE [driver |-> "bot", stage |-> BotNextStage(sched.stage),
                      queue |-> Query(QueueOf(BotNextStage(sched.stage)), QUERY_LIMIT)]
    /\ UNCHANGED << gh, store, sync, pending, hist, pin, pout, lockvars, issuevars >>

(***************************************************************************)
(* sync(): the overlap lock around the per-repository passes.              *)
(***************************************************************************)
\* get_config()["repos"]; repository r holds the one pull request r
REPOS == [i \in 1..NumRepos |-> i]

\* faulty variant of acquire_lock: the row is replaced when it exists
acquire_lock_replace(tbl, name, owner, duration_seconds, t) ==
    [ok |-> TRUE,
     locks |-> {l \in tbl : l.name # name} \cup {[name |-> name, owner |-> owner, expires_at |-> t + duration_seconds]}]

\* acquire_lock(name, owner, duration_seconds) run at time t on the table:
\* DELETE of the rows with expires_at < now and INSERT in one transaction;
\* the primary key name rejects the INSERT, and closing without commit
\* discards the DELETE
acquire_lock(tbl, name, owner, duration_seconds, t) ==
    LET kept == {l \in tbl : ~(l.expires_at < t)}
    IN IF \E l \in kept : l.name = name
       THEN [ok |-> FALSE, locks |-> tbl]
       ELSE [ok |-> TRUE,
             locks |-> kept \cup {[name |-> name, owner |-> owner, expires_at |-> t + duration_seconds]}]

\* faulty variant of release_lock: the row is deleted whoever owns it
release_lock_any_owner(tbl, name, owner) ==
    [released |-> \E l \in tbl : l.name = name,
     locks |-> {l \in tbl : l.name # name}]

\* release_lock(name, owner) on the table: DELETE of the rows with that
\* name and owner; released is rowcount > 0
release_lock(tbl, name, owner) ==
    [released |-> \E l \in tbl : l.name = name /\ l.owner = owner,
     locks |-> {l \in tbl : ~(l.name = name /\ l.owner = owner)}]

\* faulty variant of cleanup_expired_locks: nothing is deleted
cleanup_expired_locks_none(tbl, t) ==
    tbl

\* cleanup_expired_locks() run at time t
cleanup_expired_locks(tbl, t) ==
    {l \in tbl : ~(l.expires_at <= t)}

\* faulty variant of sync_raised: the exception leaves the loop
sync_raised_leaves_loop(proc, repo) ==
    [proc EXCEPT !.errors = Append(@, repo), !.todo = << >>,
                 !.called = Append(@, repo), !.raised = @ \cup {repo}]

\* sync(): sync_repo(repo) raised; the handler appends to errors and the
\* loop goes on with the next repository
sync_raised(proc, repo) ==
    [proc EXCEPT !.errors = Append(@, repo), !.todo = Tail(@),
                 !.called = Append(@, repo), !.raised = @ \cup {repo}]

\* sync(): sync_repo(repo) returned count
sync_returned(proc, repo, count) ==
    [proc EXCEPT !.total_synced = @ + count, !.todo = Tail(@), !.called = Append(@, repo)]

\* sync(): init_db() and cleanup_expired_locks()
SyncBegin(a) ==
    /\ procs[a].pc = "start"
    /\ locks' = cleanup_expired_locks(locks, now)
    /\ procs' = [procs EXCEPT ![a].pc = "acquire"]
    /\ UNCHANGED << gh, store, sync, sched, pending, hist, pin, pout, now, sync_log, issuevars >>

\* sync(): acquire_lock(SYNC_LOCK_NAME, lock_owner, SYNC_LOCK_TTL), and the
\* return when it is refused
SyncAcquire(a) ==
    /\ procs[a].pc = "acquire"
    /\ LET r == acquire_lock(locks, SYNC_LOCK_NAME, a, SYNC_LOCK_TTL, now)
       IN /\ locks' = r.locks
          /\ procs' = [procs EXCEPT ![a] =
                         IF r.ok
                         THEN [@ EXCEPT !.pc = "repos", !.todo = REPOS, !.started_at = now,
                                        !.expires_at = now + SYNC_LOCK_TTL]
                         ELSE [@ EXCEPT !.pc = "aborted"]]
    /\ UNCHANGED << gh, store, sync, sched, pending, hist, pin, pout, now, sync_log, issuevars >>

\* sync(): one turn of the loop over REPOS. sync_repo(repo) saves the row of
\* the repository's open PR, or reconciles its row when the PR has left the
\* open list (a failed detail fetch counts as CLOSED), or raises at its
\* first fetch
SyncRepo(a) ==
    /\ procs[a].pc = "repos"
    /\ procs[a].todo # << >>
    /\ LET repo == Head(procs[a].todo)
       IN \/ /\ gh[repo].state = "OPEN"
             /\ store' = [store EXCEPT ![repo] =
                             PrRow("OPEN", fetch_pr_detail(repo), store[repo],
                                   REQUIRED_REVIEWERS, APPROVAL_RULES)]
             /\ procs' = [procs EXCEPT ![a] = sync_returned(@, repo, 1)]
          \/ /\ gh[repo].state # "OPEN"
             /\ store[repo].exists /\ Casefold(store[repo].github_state) = "open"
             /\ \E actual \in {gh[repo].state, "CLOSED"} :
                   store' = [store EXCEPT ![repo] = ReconciledRow(@, actual)]
             /\ procs' = [procs EXCEPT ![a] = sync_returned(@, repo, 1)]
          \/ /\ gh[repo].state # "OPEN"
             /\ ~(store[repo].exists /\ Casefold(store[repo].github_state) = "open")
             /\ store' = store
             /\ procs' = [procs EXCEPT ![a] = sync_returned(@, repo, 0)]
          \/ /\ store' = store
             /\ procs' = [procs EXCEPT ![a] = sync_raised(@, repo)]
    /\ UNCHANGED << gh, sync, sched, pending, hist, pin, pout, locks, now, sync_log, issuevars >>

\* sync(): the finally clause, release_lock(SYNC_LOCK_NAME, lock_owner)
SyncRelease(a) ==
    /\ procs[a].pc = "repos"
    /\ procs[a].todo = << >>
    /\ LET r == release_lock(locks, SYNC_LOCK_NAME, a)
       IN /\ locks' = r.locks
          /\ procs' = [procs EXCEPT ![a].pc = "log", ![a].released = r.released]
    /\ UNCHANGED << gh, store, sync, sched, pending, hist, pin, pout, now, sync_log, issuevars >>

\* sync(): the INSERT INTO sync_log; the errors column is NULL, written
\* << >> here, when the list is empty
SyncLog(a) ==
    /\ procs[a].pc = "log"
    /\ sync_log' = Append(sync_log, [started_at |-> procs[a].started_at, finished_at |-> now,
                                     items_synced |-> procs[a].total_synced,
                                     errors |-> procs[a].errors])
    /\ procs' = [procs EXCEPT ![a].pc = "done"]
    /\ UNCHANGED << gh, store, sync, sched, pending, hist, pin, pout, locks, now, issuevars >>

\* the process of an invocation is killed inside the loop: nothing of
\* sync() runs any more, the finally clause included
SyncKilled(a) ==
    /\ procs[a].pc = "repos"
    /\ procs' = [procs EXCEPT ![a].pc = "dead"]
    /\ UNCHANGED << gh, store, sync, sched, pending, hist, pin, pout, locks, now, sync_log, issuevars >>

\* datetime.now(timezone.utc) advances
Tick ==
    /\ now < MaxClock
    /\ now' = now + TickSeconds
    /\ UNCHANGED << gh, store, sync, sched, pending, hist, pin, pout, locks, procs, sync_log, issuevars >>

Next ==
    \/ \E p \in Items : Push(p)
    \/ \E p \in Items : SubmitReview(p)
    \/ \E p \in Items : SetMergeable(p)
    \/ \E p \in Items : SetState(p)
    \/ SyncStart
    \/ SyncRead
    \/ SyncSave
    \/ SyncReconcile
    \/ CycleStart
    \/ CycleItem

Spec == Init /\ [][Next]_vars

InitTasks ==
    /\ SysInit(PRs, TRUE)
    /\ pin = NoPure
    /\ pout = NoPure

NextTasks ==
    \/ \E p \in Items : Push(p)
    \/ \E p \in Items : SubmitReview(p)
    \/ SyncStart
    \/ SyncRead
    \/ SyncSave
    \/ SyncReconcile
    \/ TaskStart
    \/ TaskSpawn
    \/ TaskMerge
    \/ \E p \in Items : MarkDispatched(p)

SpecTasks == InitTasks /\ [][NextTasks]_vars

NextMarks ==
    \/ \E p \in Items : Push(p)
    \/ \E p \in Items : SubmitReview(p)
    \/ \E p \in Items : SetMergeable(p)
    \/ SyncStart
    \/ SyncRead
    \/ SyncSave
    \/ SyncReconcile
    \/ TaskStart
    \/ TaskSpawn
    \/ TaskMerge
    \/ \E p \in Items : MarkDispatched(p)

SpecMarks == Init /\ [][NextMarks]_vars

InitQueue ==
    /\ SysInit(1..NumQueued, FALSE)
    /\ pin = NoPure
    /\ pout = NoPure

NextQueue ==
    \/ \E p \in Items : SubmitReview(p)
    \/ SyncStart
    \/ SyncRead
    \/ SyncSave
    \/ SyncReconcile
    \/ TaskStart
    \/ TaskSpawn
    \/ TaskMerge
    \/ BotStart
    \/ BotItem
    \/ BotAdvance

SpecQueue == InitQueue /\ [][NextQueue]_vars

\* the values the queue's config file gives defaultMaxIterations: the cap of
\* the sync engine, one less and one more
CapInputs == {MAX_ITERATIONS - 1, MAX_ITERATIONS, MAX_ITERATIONS + 1}

\* the workflow of Spec under each configuration of the queue
InitCaps ==
    /\ SysInit(PRs, FALSE)
    /\ \E c \in CapInputs : pin = [f |-> "load_config", defaultMaxIterations |-> c]
    /\ pout = NoPure

NextCaps ==
    \/ \E p \in Items : Push(p)
    \/ \E p \in Items : SubmitReview(p)
    \/ \E p \in Items : SetMergeable(p)
    \/ \E p \in Items : SetState(p)
    \/ SyncStart
    \/ SyncRead
    \/ SyncSave
    \/ SyncReconcile
    \/ CycleStart
    \/ CycleItem

SpecCaps == InitCaps /\ [][NextCaps]_vars

(***************************************************************************)
(* The pure functions applied to free inputs.                              *)
(***************************************************************************)
\* review entries of a fetched PR detail, before their submittedAt key
ReviewInputs ==
    [author : {"A", "B"}, state : {"APPROVED", "CHANGES_REQUESTED", "COMMENTED"}, sha : {"sha1", "sha2"}]

\* review lists of length <= MaxReviews
ReviewListInputs == UNION {[1..n -> ReviewInputs] : n \in 0..MaxReviews}

\* the list as the API returns it: oldest first, or newest first
Timed(rs, order) ==
    [i \in 1..Len(rs) |->
        [author |-> rs[i].author, state |-> rs[i].state, sha |-> rs[i].sha,
         at |-> IF order = "asc" THEN i ELSE Len(rs) + 1 - i]]

\* the (mergeable, mergeStateStatus) pairs GitHub reports
MergeInputs ==
    {<< "MERGEABLE", "CLEAN" >>, << "CONFLICTING", "DIRTY" >>, << "UNKNOWN", "DIRTY" >>,
     << "MERGEABLE", "UNSTABLE" >>}

\* prior rows as determine_pr_action reads them: absent, or with a baseline
ExistingInputs ==
    {NoRow} \cup {[NoRow EXCEPT !.exists = TRUE, !.last_reviewed_sha = x] : x \in {"sha1", "sha2"}}

\* reviewer lists of the repository configuration
RequiredInputs == {{}, {"A"}, {"A", "B"}}

\* approval policies of a repository: absent, a threshold with a veto, or
\* a threshold of zero
RulesInputs ==
    {NoRules, [min_approvals |-> 1, required_reviewers |-> {}, veto_powers |-> {"B"}],
     [min_approvals |-> 0, required_reviewers |-> {}, veto_powers |-> {}]}

\* approval policies handed to evaluate_reviews: absent, without a
\* threshold, or every threshold up to the pool size, each with or without
\* a required login and a veto login
PolicyInputs ==
    {NoRules} \cup {[min_approvals |-> m, required_reviewers |-> rr, veto_powers |-> v] :
                      m \in {NoMin} \cup 0..MaxReviews, rr \in {{}, {"A"}}, v \in {{}, {"B"}}}

\* the arguments of one call of determine_pr_action
DetermineInput(st, h, m, rs, order, ex, req, ar) ==
    [f |-> "determine_pr_action",
     pr_detail |-> [state |-> st, headRefOid |-> h, mergeable |-> m[1], mergeStateStatus |-> m[2],
                    reviews |-> Timed(rs, order)],
     existing |-> ex, required_reviewers |-> req, approval_rules |-> ar]

\* the action values of the workflow; Action of github_sync.py has no
\* needs_status_fix member, the tests and tasks.fix_status_checks use it
ActionInputs ==
    {"none", "needs_review", "needs_fix", "ready_to_merge", "needs_conflict_resolution",
     "needs_status_fix", "max_iterations_reached"}

\* the marker of each dispatch kind of a prior row
GateKinds == MarkerKinds \cup {"status_fix"}

DedupeInputs ==
    {[f |-> "apply_dispatch_dedupe", action |-> a, head_sha |-> h, marker |-> mk] :
        a \in ActionInputs, h \in Shas \cup {None, ""}, mk \in [GateKinds -> Shas \cup {None}]}

\* stored rows and the dispatch types the workers pass to mark_dispatched
MarkInputs ==
    {[f |-> "mark_dispatched",
      row |-> [NoRow EXCEPT !.exists = TRUE, !.head_sha = "sha2", !.marker = mk, !.iteration = n],
      dispatch_type |-> k, head_sha |-> h] :
        mk \in [MarkerKinds -> {None, "sha1"}], n \in {0, MAX_ITERATIONS - 1}, k \in GateKinds, h \in Shas}

\* review lists in any order of their submittedAt keys; GitHub stamps to
\* the second, so two reviews can carry the same key
EvaluateInputs ==
    {[f |-> "evaluate_reviews", reviews |-> rs, required_reviewers |-> req, approval_rules |-> ar] :
        rs \in UNION {[1..n -> [author : {"A", "B"}, state : {"APPROVED", "CHANGES_REQUESTED", "COMMENTED"},
                                sha : {"sha1", "sha2"}, at : 1..MaxReviews]] : n \in 0..MaxReviews},
        req \in RequiredInputs, ar \in PolicyInputs}

\* the issue loop of sync_repo for one issue: the open-PR list with the
\* issues each title and body closes, the issue and its prior row
IssueInputs ==
    {[f |-> "determine_issue_action", prs |-> prs, issue |-> [number |-> n, state |-> st], existing |-> ex] :
        prs \in UNION {[1..k -> [number : {11}, title : {{}, {1}, {2}}, body : {{}, {1}, {2}}]] : k \in 0..NumQueued},
        n \in 1..NumIssues, st \in {"OPEN", "CLOSED", "closed"},
        ex \in {NoIssueRow} \cup
               {[exists |-> TRUE, github_state |-> "OPEN", status |-> s, action |-> "none", iteration |-> 0] :
                   s \in {"open", "in_progress", "pr_created", "closed"}}}

\* the repos filter of a query (empty when absent) and the enabled flags
\* of the configuration
RepoFilterInputs ==
    {[f |-> "_effective_repos", repos |-> rq, enabled |-> en] :
        rq \in SUBSET RepoNames, en \in [RepoNames -> BOOLEAN]}

\* the action kinds the scheduler steps ask the PR queue for
QueryInputs ==
    {[f |-> "query", action |-> a, limit |-> QUERY_LIMIT] :
        a \in {"needs_review", "needs_fix", "needs_conflict_resolution", "needs_status_fix",
               "ready_to_merge", "max_iterations_reached"}}

\* a repository with one PR and open issues that no PR links yet
InitIssues ==
    /\ gh = [p \in PRs |-> NewPR]
    /\ store = [p \in PRs |-> NoRow]
    /\ sync = SyncIdle
    /\ sched = SchedIdle
    /\ pending = [p \in PRs |-> NoSpawn]
    /\ hist = [on |-> FALSE, last |-> [p \in PRs |-> [kind |-> None, sha |-> None, n |-> 0]]]
    /\ pin = NoPure
    /\ pout = NoPure
    /\ locks = {}
    /\ now = 0
    /\ procs = [a \in Invocations |-> NoProc]
    /\ sync_log = << >>
    /\ issues = [i \in 1..NumIssues |-> [state |-> "OPEN", linked |-> FALSE]]
    /\ irows = [i \in 1..NumIssues |-> NoIssueRow]

NextIssues ==
    \/ \E i \in IssueIds : SetIssueState(i)
    \/ \E i \in IssueIds : LinkIssue(i)
    \/ \E p \in Items : SetState(p)
    \/ SyncStart
    \/ SyncRead
    \/ SyncSave
    \/ SyncReconcile

SpecIssues == InitIssues /\ [][NextIssues]_vars

\* two invocations of sync() started by cron over two repositories
InitLock ==
    /\ gh = [p \in 1..NumRepos |-> NewPR]
    /\ store = [p \in 1..NumRepos |-> NoRow]
    /\ sync = SyncIdle
    /\ sched = SchedIdle
    /\ pending = [p \in 1..NumRepos |-> NoSpawn]
    /\ hist = [on |-> FALSE, last |-> [p \in 1..NumRepos |-> [kind |-> None, sha |-> None, n |-> 0]]]
    /\ pin = NoPure
    /\ pout = NoPure
    /\ locks = {}
    /\ now = 0
    /\ procs = [a \in Invocations |-> [NoProc EXCEPT !.pc = "start"]]
    /\ sync_log = << >>
    /\ issues = << >>
    /\ irows = << >>

NextLock ==
    \/ \E p \in Items : SetState(p)
    \/ \E a \in Invocations : SyncBegin(a)
    \/ \E a \in Invocations : SyncAcquire(a)
    \/ \E a \in Invocations : SyncRepo(a)
    \/ \E a \in Invocations : SyncRelease(a)
    \/ \E a \in Invocations : SyncLog(a)
    \/ \E a \in Invocations : SyncKilled(a)
    \/ Tick

SpecLock == InitLock /\ [][NextLock]_vars

InitPure ==
    /\ SysInit(PRs, FALSE)
    /\ \/ \E st \in {"OPEN", "MERGED"}, h \in {"sha1", None}, m \in MergeInputs, rs \in ReviewListInputs,
             order \in {"asc", "desc"}, ex \in ExistingInputs, req \in RequiredInputs, ar \in RulesInputs :
             pin = DetermineInput(st, h, m, rs, order, ex, req, ar)
       \/ pin \in DedupeInputs
       \/ pin \in MarkInputs
       \/ pin \in QueryInputs
       \/ pin \in EvaluateInputs
       \/ pin \in RepoFilterInputs
       \/ pin \in IssueInputs
    /\ pout = NoPure

ApplyDetermine ==
    /\ pin.f = "determine_pr_action"
    /\ pout = NoPure
    /\ pout' = [f |-> pin.f,
                r |-> determine_pr_action(pin.pr_detail, pin.existing, pin.required_reviewers, pin.approval_rules)]
    /\ UNCHANGED << gh, store, sync, sched, pending, hist, pin, lockvars, issuevars >>

\* the call of sync_repo: the four markers the gate has parameters for
ApplyDedupe ==
    /\ pin.f = "apply_dispatch_dedupe"
    /\ pout = NoPure
    /\ pout' = [f |-> pin.f,
                r |-> apply_dispatch_dedupe(pin.action, pin.head_sha, pin.marker["review"], pin.marker["fix"],
                                            pin.marker["merge"], pin.marker["conflict"])]
    /\ UNCHANGED << gh, store, sync, sched, pending, hist, pin, lockvars, issuevars >>

\* mark_dispatched(item_id, dispatch_type, head_sha) on the row of item_id
ApplyMark ==
    /\ pin.f = "mark_dispatched"
    /\ pout = NoPure
    /\ pout' = [f |-> pin.f, r |-> MarkedRow(pin.row, pin.dispatch_type, pin.head_sha)]
    /\ UNCHANGED << gh, store, sync, sched, pending, hist, pin, lockvars, issuevars >>

\* client.query(action=..., limit=...) of a scheduler step
ApplyQuery ==
    /\ pin.f = "query"
    /\ pout = NoPure
    /\ pout' = [f |-> pin.f, r |-> query(pin.action, pin.limit)]
    /\ UNCHANGED << gh, store, sync, sched, pending, hist, pin, lockvars, issuevars >>

\* evaluate_reviews(reviews, required_reviewers, approval_rules)
ApplyEvaluate ==
    /\ pin.f = "evaluate_reviews"
    /\ pout = NoPure
    /\ pout' = [f |-> pin.f, r |-> evaluate_reviews(pin.reviews, pin.required_reviewers, pin.approval_rules)]
    /\ UNCHANGED << gh, store, sync, sched, pending, hist, pin, lockvars, issuevars >>

\* the repo test of _execute for the rows of each repository
ApplyRepoFilter ==
    /\ pin.f = "_effective_repos"
    /\ pout = NoPure
    /\ pout' = [f |-> pin.f, r |-> ServedRepos(pin.repos, pin.enabled)]
    /\ UNCHANGED << gh, store, sync, sched, pending, hist, pin, lockvars, issuevars >>

\* find_linked_prs and determine_issue_action as the issue loop calls
\* them, and the row it saves
ApplyIssue ==
    /\ pin.f = "determine_issue_action"
    /\ pout = NoPure
    /\ pout' = [f |-> pin.f,
                r |-> IssueRow(pin.issue, pin.existing, find_linked_prs(pin.prs, pin.issue.number) # 0)]
    /\ UNCHANGED << gh, store, sync, sched, pending, hist, pin, lockvars, issuevars >>

NextPure ==
    \/ ApplyIssue
    \/ ApplyRepoFilter
    \/ ApplyDetermine
    \/ ApplyDedupe
    \/ ApplyMark
    \/ ApplyQuery
    \/ ApplyEvaluate

SpecPure == InitPure /\ [][NextPure]_vars

(***************************************************************************)
(* Properties.                                                             *)
(***************************************************************************)
\* C1: while the head of a PR stays at one revision H, no action kind is
\* successfully dispatched more than once for that PR at H
C1_OncePerRevision == \A p \in Items : hist.last[p].n <= 1

\* C2: a save_item of the sync pass loses no update of mark_dispatched: the
\* markers and the iteration of the row it replaces are the ones it writes
C2_NoLostUpdate ==
    [][(sync.pc = "save" /\ sync'.pc = "prs" /\ store[sync.cur].exists)
         => /\ store'[sync.cur].marker = store[sync.cur].marker
            /\ store'[sync.cur].iteration = store[sync.cur].iteration]_vars

\* the marker kind of each action the gate dedupes
GateKindOf(action) ==
    CASE action = "needs_review" -> "review"
      [] action = "needs_fix" -> "fix"
      [] action = "ready_to_merge" -> "merge"
      [] action = "needs_conflict_resolution" -> "conflict"
      [] action = "needs_status_fix" -> "status_fix"
      [] OTHER -> None

\* C3: for each of the five deduped action kinds A and every non-empty head
\* revision H, a prior marker of A equal to H makes the gate return an
\* action other than A
C3_DedupeGate ==
    (/\ pout.f = "apply_dispatch_dedupe"
     /\ GateKindOf(pin.action) # None
     /\ Truthy(pin.head_sha)
     /\ pin.marker[GateKindOf(pin.action)] = pin.head_sha)
    => pout.r # pin.action

\* C4: a sync pass stores none for a deduped action whose marker in the
\* prior row equals the head, and stores the action itself whenever the
\* marker differs from the head
C4_DedupeFollowsHead ==
    [][(sync.pc = "save" /\ sync'.pc = "prs")
         => LET ex == sync.existing
                d == fetch_pr_detail(sync.cur)
                a == update_iteration(ex, determine_pr_action(d, ex, REQUIRED_REVIEWERS, APPROVAL_RULES).action,
                                      MAX_ITERATIONS)
            IN a \in {"needs_review", "needs_fix", "ready_to_merge", "needs_conflict_resolution"}
                 => store'[sync.cur].action =
                      IF ex.marker[GateKindOf(a)] = d.headRefOid THEN "none" ELSE a]_vars

\* a sync pass is about to save a PR whose review was dispatched and
\* suppressed at the revision of the prior row, and whose head has moved
C4_Witness ==
    /\ sync.pc = "save"
    /\ sync.existing.exists
    /\ sync.existing.action = "none"
    /\ sync.existing.status = "pending_review"
    /\ sync.existing.marker["review"] = sync.existing.head_sha
    /\ gh[sync.cur].headRefOid # sync.existing.head_sha
    /\ gh[sync.cur].mergeable = "MERGEABLE"

\* C5: no more than max_iterations fix dispatches succeed for one PR
C5_FixDispatchesCapped ==
    \A p \in Items : hist.last[p].kind = "fix" => hist.last[p].n <= MAX_ITERATIONS

C7_IterationMonotone ==
    [][\A p \in Items :
         \/ store'[p].iteration = store[p].iteration
         \/ /\ store'[p].iteration = store[p].iteration + 1
            /\ sched.driver = "cycle"
            /\ store'[p].marker["fix"] = Head(sched.queue).headSha]_vars

\* C8: a dispatch loop with items left in its queue goes on to the next
\* item whatever the outcome of the current one
C8_PassContinues ==
    [][(sched.driver \in {"task", "bot"} /\ Len(sched.queue) > 1 /\ sched' # sched)
         => sched'.queue = Tail(sched.queue)]_vars

\* C9: no review agent is spawned while an item of the merge, fix or
\* conflict queue is still to be processed by the pass
C9_ReviewLast ==
    [][(sched.driver = "bot" /\ sched.stage = "review" /\ sched' # sched /\ pending' # pending)
         => /\ Query("ready_to_merge", QUERY_LIMIT) = << >>
            /\ Query("needs_fix", QUERY_LIMIT) = << >>
            /\ Query("needs_conflict_resolution", QUERY_LIMIT) = << >>]_vars

\* C10: ready_to_merge is returned only with status approved, no conflict
\* reported and a non-null baseline equal to the head
C10_ReadyToMerge ==
    (pout.f = "determine_pr_action" /\ pout.r.action = "ready_to_merge")
    => /\ pout.r.status = "approved"
       /\ pin.pr_detail.mergeable # "CONFLICTING"
       /\ pin.pr_detail.mergeStateStatus # "DIRTY"
       /\ pout.r.last_reviewed_sha # None
       /\ pout.r.last_reviewed_sha = pin.pr_detail.headRefOid

C10_Witness ==
    /\ pout.f = "determine_pr_action"
    /\ pout.r.action = "ready_to_merge"
    /\ Len(pin.pr_detail.reviews) = 2

\* C11: a row a sync pass stores with action needs_fix has status
\* changes_requested, a baseline equal to its head and an iteration below
\* its cap
C11_NeedsFixRow ==
    [][(sync.pc = "save" /\ sync'.pc = "prs" /\ store'[sync.cur].action = "needs_fix")
         => /\ store'[sync.cur].status = "changes_requested"
            /\ store'[sync.cur].sha_matches_review
            /\ store'[sync.cur].last_reviewed_sha = store'[sync.cur].head_sha
            /\ store'[sync.cur].iteration < store'[sync.cur].max_iterations]_vars

\* a sync pass has stored needs_fix for a PR one fix short of the cap
C11_Witness ==
    \E p \in Items : /\ store[p].action = "needs_fix"
                      /\ store[p].status = "changes_requested"
                      /\ store[p].iteration = MAX_ITERATIONS - 1
                      /\ store[p].marker["fix"] # store[p].head_sha

\* C12: a PR that is not merged and has conflicts gets (conflicting,
\* needs_conflict_resolution) whatever its reviews are
C12_ConflictsNeedResolution ==
    (/\ pout.f = "determine_pr_action"
     /\ Casefold(pin.pr_detail.state) # "merged"
     /\ \/ Casefold(pin.pr_detail.mergeable) = "conflicting"
        \/ Casefold(pin.pr_detail.mergeStateStatus) = "dirty")
    => /\ pout.r.status = "conflicting"
       /\ pout.r.action = "needs_conflict_resolution"

\* C13: a PR that is not merged, has no conflicts and has merge state
\* unstable gets (checks_failing, needs_status_fix) whatever its reviews are
C13_UnstableNeedsStatusFix ==
    (/\ pout.f = "determine_pr_action"
     /\ Casefold(pin.pr_detail.state) # "merged"
     /\ Casefold(pin.pr_detail.mergeable) # "conflicting"
     /\ Casefold(pin.pr_detail.mergeStateStatus) = "unstable")
    => /\ pout.r.status = "checks_failing"
       /\ pout.r.action = "needs_status_fix"

\* the decisive reviews of required reviewers in a fetched review list
DecisiveReviews(rs) ==
    {i \in 1..Len(rs) : rs[i].author \in REQUIRED_REVIEWERS /\ rs[i].state \in {"APPROVED", "CHANGES_REQUESTED"}}

C15_BaselineResolution ==
    pout.f = "determine_pr_action"
    => LET ev == evaluate_reviews(pin.pr_detail.reviews, pin.required_reviewers, pin.approval_rules)
           rs == pin.pr_detail.reviews
           decisive == \E i \in 1..Len(rs) : /\ rs[i].author \in pin.required_reviewers
                                             /\ rs[i].state \in {"APPROVED", "CHANGES_REQUESTED"}
           prior == IF pin.existing.exists THEN pin.existing.last_reviewed_sha ELSE None
       IN pout.r.last_reviewed_sha =
            IF ev.all_required_approved /\ ev.latest_review_sha = pin.pr_detail.headRefOid
            THEN pin.pr_detail.headRefOid
            ELSE IF decisive THEN ev.latest_review_sha
            ELSE prior

\* C16: the flags all_approved and any_changes_requested the state machine
\* returns for the row are never both true
C16_FlagsExclusive ==
    pout.f = "determine_pr_action" => ~(pout.r.all_approved /\ pout.r.any_changes_requested)

\* C17: every stored row has sha_matches_review true exactly when its
\* last_reviewed_sha is not null and equals its head_sha
C17_ShaMatchesIff ==
    \A p \in Items :
        store[p].sha_matches_review
          <=> (store[p].last_reviewed_sha # None /\ store[p].last_reviewed_sha = store[p].head_sha)

\* a row with a matching baseline that a fix dispatch has marked since
C17_Witness ==
    \E p \in Items : /\ store[p].exists
                      /\ store[p].sha_matches_review
                      /\ store[p].marker["fix"] = store[p].head_sha
                      /\ store[p].iteration > 0

\* the lock row an invocation holds, unexpired at the current time
HoldsUnexpired(a) ==
    \E l \in locks : l.name = SYNC_LOCK_NAME /\ l.owner = a /\ l.expires_at > now

\* C18: while an unexpired row of the sync lock exists, acquire_lock
\* returns false and the invocation that asked leaves without touching the
\* store, for good; so two invocations are inside their loop over the
\* repositories together only when the lock of one of them has expired
C18_LockExcludes ==
    /\ [](\A a, b \in Invocations :
            (a # b /\ procs[a].pc = "repos" /\ procs[b].pc = "repos")
              => (procs[a].expires_at <= now \/ procs[b].expires_at <= now))
    /\ [][\A a \in Invocations :
            /\ (/\ procs[a].pc = "acquire"
                /\ procs'[a].pc # "acquire"
                /\ \E l \in locks : l.name = SYNC_LOCK_NAME /\ l.expires_at > now)
                 => (procs'[a].pc = "aborted" /\ store' = store /\ locks' = locks)
            /\ procs[a].pc = "aborted" => procs'[a] = procs[a]]_vars

C18_Witness ==
    \E a, b \in Invocations :
        /\ procs[a].pc = "repos"
        /\ HoldsUnexpired(a)
        /\ procs[b].pc = "aborted"
        /\ store[1].exists

\* C19: the start of a sync() invocation deletes every lock row whose
\* expiry is not in the future, and an invocation that asks for the lock
\* when no row or only an expired row is left gets it and enters its loop
C19_ExpiredLockSwept ==
    [][\A a \in Invocations :
            /\ (procs[a].pc = "start" /\ procs'[a].pc = "acquire")
                 => locks' = {l \in locks : l.expires_at > now}
            /\ (/\ procs[a].pc = "acquire"
                /\ procs'[a].pc # "acquire"
                /\ \A l \in locks : l.expires_at < now)
                 => /\ procs'[a].pc = "repos"
                    /\ locks' = {[name |-> SYNC_LOCK_NAME, owner |-> a, expires_at |-> now + SYNC_LOCK_TTL]}]_vars

\* the holder was killed, its lock expired, and the other invocation holds
\* the lock and is in its loop
C19_Witness ==
    \E a, b \in Invocations :
        /\ procs[a].pc = "dead"
        /\ procs[a].expires_at <= now
        /\ procs[b].pc = "repos"
        /\ HoldsUnexpired(b)

\* C20: an invocation that got the lock can always take its next step until
\* it has written its sync_log row; once it has, sync_repo was called for
\* every configured repository in order, the repositories whose call raised
\* are the errors of a sync_log row, and no lock row of the invocation is left
C20_RepoErrorsIsolated ==
    \A a \in Invocations :
        /\ procs[a].pc = "repos" => ENABLED (SyncRepo(a) \/ SyncRelease(a))
        /\ procs[a].pc = "log" => ENABLED SyncLog(a)
        /\ procs[a].pc = "done"
             => /\ procs[a].called = REPOS
                /\ \E i \in DOMAIN sync_log :
                      /\ sync_log[i].errors = SetToSeq(procs[a].raised)
                      /\ sync_log[i].started_at = procs[a].started_at
                /\ ~ \E l \in locks : l.owner = a

\* the first repository raised, the second was synced, the pass is logged
C20_Witness ==
    \E a \in Invocations :
        /\ procs[a].pc = "done"
        /\ procs[a].raised = {1}
        /\ procs[a].total_synced = 1
        /\ store[2].exists
        /\ \E i \in DOMAIN sync_log : sync_log[i].errors = << 1 >>

\* C21: the reconciliation step of a pass gives every row stored as open
\* and missing from the fetched open list action none and (merged, merged)
\* or (closed, closed), merged only when the PR is merged upstream and
\* closed whenever it is not; afterwards no row stored as open is missing
\* from the fetched list
C21_Reconciled ==
    [][(sync.pc = "prs" /\ sync.todo = << >> /\ sync'.pc = "idle")
         => \A p \in Items :
              /\ (store[p].exists /\ Casefold(store[p].github_state) = "open" /\ p \notin sync.open)
                   => /\ store'[p].action = "none"
                      /\ << store'[p].github_state, store'[p].status >>
                           \in {<< "closed", "closed" >>} \cup
                               (IF gh[p].state = "MERGED" THEN {<< "merged", "merged" >>} ELSE {})
              /\ ~(store'[p].exists /\ Casefold(store'[p].github_state) = "open" /\ p \notin sync.open)]_vars

\* a PR with a review on record that was merged upstream and reconciled
C21_Witness ==
    \E p \in Items : /\ store[p].github_state = "merged"
                      /\ store[p].status = "merged"
                      /\ store[p].action = "none"
                      /\ store[p].last_reviewed_sha = store[p].head_sha
                      /\ sync.pc = "idle"

C26_MarkSetsItsMarker ==
    pout.f = "mark_dispatched"
      => /\ pin.dispatch_type \in DOMAIN pout.r.marker
         /\ pout.r.marker[pin.dispatch_type] = pin.head_sha
         /\ \A j \in DOMAIN pin.row.marker \ {pin.dispatch_type} : pout.r.marker[j] = pin.row.marker[j]
         /\ pout.r.iteration = pin.row.iteration + (IF pin.dispatch_type = "fix" THEN 1 ELSE 0)

\* C27: a query of the PR queue for any action kind of the scheduler
\* returns the stored open items with that action, not an error
C27_QueryServesEveryKind ==
    pout.f = "query" => (~pout.r.raised /\ pout.r.prs = Query(pin.action, pin.limit))

\* the four actions that have a dispatch marker column in the queue layer
DedupedActions == {"needs_review", "needs_fix", "ready_to_merge", "needs_conflict_resolution"}

\* C28: with the default filter, the result of a query for an action with a
\* marker has no row whose marker of that action equals its non-empty
\* head_sha, and of the rows selected by the action the filter removes no
\* other: a row with a null or different marker stays
C28_ExcludeDispatched ==
    \A a \in DedupedActions :
        /\ \A i \in DOMAIN Query(a, QUERY_LIMIT) :
              LET row == store[Query(a, QUERY_LIMIT)[i].pr]
              IN ~(row.head_sha \notin {None, ""} /\ row.marker[GateKindOf(a)] = row.head_sha)
        /\ \A p \in QueueScanned(a) :
              (store[p].marker[GateKindOf(a)] = None \/ store[p].marker[GateKindOf(a)] # store[p].head_sha)
                => p \in QueueEligible(a)

\* a row stored with needs_review whose review marker equals its head, so
\* that the query selects it and the filter removes it
C28_Witness ==
    \E p \in Items : /\ p \in QueueScanned("needs_review")
                      /\ store[p].marker["review"] = store[p].head_sha
                      /\ Query("needs_review", QUERY_LIMIT) = << >>

\* the rearrangements of a list
ListPerms(s) ==
    IF s = << >> THEN {<< >>}
    ELSE {[i \in 1..Len(s) |-> s[f[i]]] : f \in Permutations(1..Len(s))}

\* no two reviews of the list carry the same submittedAt key
DistinctTimes(s) ==
    \A i, j \in 1..Len(s) : i # j => s[i].at # s[j].at

\* C30 as stated: the result of the evaluator is the same for every
\* rearrangement of the review list
C30_AnyOrder ==
    pout.f = "evaluate_reviews"
      => \A q \in ListPerms(pin.reviews) :
            evaluate_reviews(q, pin.required_reviewers, pin.approval_rules) = pout.r

\* C30: for a review list whose submittedAt keys are pairwise distinct, the
\* result of the evaluator is the same for every rearrangement of the list
C30_AnyOrderDistinctTimes ==
    (pout.f = "evaluate_reviews" /\ DistinctTimes(pin.reviews))
      => \A q \in ListPerms(pin.reviews) :
            evaluate_reviews(q, pin.required_reviewers, pin.approval_rules) = pout.r

\* the later review of a required reviewer stands first in the list and
\* decides
C30_Witness ==
    /\ pout.f = "evaluate_reviews"
    /\ Len(pin.reviews) = 2
    /\ pin.reviews[1].at > pin.reviews[2].at
    /\ pin.reviews[1].author = "A" /\ pin.reviews[2].author = "A"
    /\ pin.reviews[1].state = "APPROVED" /\ pin.reviews[2].state = "CHANGES_REQUESTED"
    /\ pin.required_reviewers = {"A"}
    /\ pout.r.all_required_approved

\* C29: whatever repos filter a query carries, the rows it can return belong
\* to repositories the configuration enables
C29_DisabledRepoSkipped ==
    pout.f = "_effective_repos" => \A repo \in pout.r : pin.enabled[repo]

GithubStates == {"open", "closed", "merged"}

C23_ClosedUpstreamTerminal ==
    [][(sync.pc = "prs" /\ sync.todo = << >> /\ sync'.pc = "idle")
         => /\ \A i \in IssueIds :
                 (irows[i].exists /\ i \notin sync.issues /\ Casefold(irows[i].github_state) = "open")
                   => (irows'[i].status \in {"closed", "merged"} /\ irows'[i].action = "none")
            /\ \A p \in Items :
                 (store[p].exists /\ p \notin sync.open /\ Casefold(store[p].github_state) = "open")
                   => (store'[p].status \in {"closed", "merged"} /\ store'[p].action = "none")]_vars

RECURSIVE DecidingReviews(_, _)
\* the reviews of a list that are not comments and whose author is a
\* required reviewer, in the order of the list
DecidingReviews(rs, required) ==
    IF rs = << >> THEN << >>
    ELSE LET rest == DecidingReviews(Tail(rs), required)
         IN IF Casefold(Head(rs).state) # "commented" /\ Head(rs).author \in required
            THEN << Head(rs) >> \o rest
            ELSE rest

LastDecisionOf(rs, required, a) ==
    LET own(r) == r.author = a
        ds == SelectSeq(sorted_reviews(DecidingReviews(rs, required)), own)
    IN IF ds = << >> THEN None ELSE Casefold(ds[Len(ds)].state)

\* C32: with a policy that sets min_approvals the reviews count as approved
\* iff at least min_approvals required reviewers last approved, every login
\* of the policy's required list last approved and no login of its veto list
\* last requested changes; without one, iff every required reviewer last
\* approved
C32_ApprovedIff ==
    pout.f = "evaluate_reviews"
      => LET last(a) == LastDecisionOf(pin.reviews, pin.required_reviewers, a)
             ar == pin.approval_rules
             approvals == Cardinality({r \in pin.required_reviewers : last(r) = "approved"})
         IN pout.r.all_required_approved
              <=> IF ar.min_approvals # NoMin
                  THEN /\ approvals >= ar.min_approvals
                       /\ \A r \in ar.required_reviewers : last(r) = "approved"
                       /\ \A r \in ar.veto_powers : last(r) # "changes_requested"
                  ELSE \A r \in pin.required_reviewers : last(r) = "approved"

\* a pool of two with a threshold of one: one approval is enough until the
\* login holding the veto requests changes
C32_Witness ==
    /\ pout.f = "evaluate_reviews"
    /\ pin.required_reviewers = {"A", "B"}
    /\ pin.approval_rules = [min_approvals |-> 1, required_reviewers |-> {}, veto_powers |-> {"B"}]
    /\ Len(pin.reviews) = 2
    /\ pin.reviews[1].author = "A" /\ pin.reviews[1].state = "APPROVED"
    /\ pin.reviews[2].author = "B" /\ pin.reviews[2].state = "CHANGES_REQUESTED"
    /\ ~pout.r.all_required_approved

\* the status and action the four issue rules give in priority order
IssueRules(closed, linked, in_progress) ==
    IF closed THEN << "closed", "none" >>
    ELSE IF linked THEN << "pr_created", "none" >>
    ELSE IF in_progress THEN << "in_progress", "none" >>
    ELSE << "open", "needs_dev" >>

\* C33: the issue rules apply in priority order, the linked rule
\* firing exactly for an open PR whose body references the issue
C33_IssueRulesBodyOnly ==
    pout.f = "determine_issue_action"
      => << pout.r.status, pout.r.action >>
           = IssueRules(Casefold(pin.issue.state) = "closed",
                        \E k \in DOMAIN pin.prs : pin.issue.number \in pin.prs[k].body,
                        pin.existing.exists /\ pin.existing.status = "in_progress")

\* what the issue loop does: the rules apply in priority order, the linked
\* rule firing for an open PR whose title or body references the issue
IssueRulesTitleOrBody ==
    pout.f = "determine_issue_action"
      => LET linked == \E k \in DOMAIN pin.prs : pin.issue.number \in pin.prs[k].title \cup pin.prs[k].body
             in_progress == pin.existing.exists /\ pin.existing.status = "in_progress"
         IN /\ << pout.r.status, pout.r.action >>
                 = IssueRules(Casefold(pin.issue.state) = "closed", linked, in_progress)
            /\ Casefold(pin.issue.state) = "open"
                 => (pout.r.action = "needs_dev" <=> ~linked /\ ~in_progress)

\* an open issue that was in_progress and that an open PR now closes
IssueRulesWitness ==
    /\ pout.f = "determine_issue_action"
    /\ pin.issue.state = "OPEN"
    /\ pin.existing.exists /\ pin.existing.status = "in_progress"
    /\ \E k \in DOMAIN pin.prs : pin.issue.number \in pin.prs[k].body
    /\ pout.r.status = "pr_created"

\* C34: a pass over the observations the stored row was saved from saves
\* the same row again: whenever a sync pass saves the row of a PR, building
\* the row once more from the same PR detail and the row just saved gives
\* that row, in every column
C34_SecondPassSame ==
    [][(sync.pc = "save" /\ sync'.pc = "prs")
          => PrRow("OPEN", fetch_pr_detail(sync.cur), store'[sync.cur],
                   REQUIRED_REVIEWERS, APPROVAL_RULES) = store'[sync.cur]]_vars

\* a pass has just saved the row of a PR whose fix was dispatched at the
\* head revision: changes requested, iteration counted, action held back
C34_Witness ==
    /\ sync.pc = "prs" /\ sync.todo = << >> /\ sync.open # {}
    /\ \E p \in sync.open :
          /\ store[p].exists
          /\ store[p].iteration >= 1
          /\ store[p].marker["fix"] = gh[p].headRefOid
          /\ store[p].status = "changes_requested"
          /\ store[p].action = "none"
          /\ store[p] = PrRow("OPEN", fetch_pr_detail(p), store[p], REQUIRED_REVIEWERS, APPROVAL_RULES)

\* C35: the release_lock call that ends a pass deletes the sync-lock rows
\* of the invocation that calls it and no other row, and returns whether it
\* deleted one; when the row under that name belongs to another invocation
\* it returns false and the table is left as it was
C35_ReleaseOwnLockOnly ==
    [][\A a \in Invocations :
          (procs[a].pc = "repos" /\ procs'[a].pc = "log")
            => /\ locks' = {l \in locks : l.owner # a}
               /\ procs'[a].released <=> (\E l \in locks : l.name = SYNC_LOCK_NAME /\ l.owner = a)
               /\ (\E l \in locks : l.name = SYNC_LOCK_NAME /\ l.owner # a)
                    => (~procs'[a].released /\ locks' = locks)]_vars

\* a pass outlived its lock, another invocation took the lock, and the
\* first pass's release returned false and left that lock in place
C35_Witness ==
    \E a, b \in Invocations :
        /\ a # b
        /\ procs[a].pc = "log"
        /\ ~procs[a].released
        /\ procs[a].expires_at <= now
        /\ procs[b].pc = "repos"
        /\ HoldsUnexpired(b)

\* C36: the state machine returns ready_to_merge only when the latest
\* decision of at least one required reviewer is approved; a PR without
\* reviews is not ready_to_merge, whatever the reviewer list and the policy
C36_ApprovalNotVacuous ==
    (pout.f = "determine_pr_action" /\ pout.r.action = "ready_to_merge")
      => \E a \in pin.required_reviewers :
            LastDecisionOf(pin.pr_detail.reviews, pin.required_reviewers, a) = "approved"

\* the revision of the review that is the latest decision of a login
LastShaOf(rs, required, a) ==
    LET own(r) == r.author = a
        ds == SelectSeq(sorted_reviews(DecidingReviews(rs, required)), own)
    IN IF ds = << >> THEN None ELSE ds[Len(ds)].sha

\* C37: when the state machine returns ready_to_merge, every required
\* reviewer whose latest decision is approved gave that approval on the
\* current head revision
C37_ApprovalsOnHead ==
    (pout.f = "determine_pr_action" /\ pout.r.action = "ready_to_merge")
      => \A a \in pin.required_reviewers :
            LastDecisionOf(pin.pr_detail.reviews, pin.required_reviewers, a) = "approved"
              => LastShaOf(pin.pr_detail.reviews, pin.required_reviewers, a) = pin.pr_detail.headRefOid

\* C38: merge_prs merges a PR only while its upstream head is the head_sha
\* of the stored row that made it ready_to_merge: a step of the merge loop
\* that merges a PR finds the upstream head equal to the stored head_sha
C38_MergesStoredHead ==
    [][\A p \in Items :
          (sched.driver = "task" /\ sched.stage = "merge" /\ gh[p].state = "OPEN" /\ gh'[p].state = "MERGED")
            => gh[p].headRefOid = store[p].head_sha]_vars

\* C39: a PR whose row a sync pass has reconciled to closed or merged is in
\* the result of no queue query, whatever the action kind asked for, the
\* max_iterations_reached kind included
C39_ReconciledNotQueued ==
    \A p \in Items :
        (store[p].exists /\ Casefold(store[p].github_state) \in {"closed", "merged"})
          => \A action \in VALID_ACTIONS :
                LET prs == query(action, QUERY_LIMIT).prs
                IN \A k \in DOMAIN prs : prs[k].pr # p

\* a PR at the iteration cap was closed upstream and reconciled
C39_Witness ==
    \E p \in Items :
        /\ store[p].exists
        /\ store[p].github_state = "closed"
        /\ store[p].iteration >= DEFAULT_MAX_ITERATIONS
        /\ sync.pc = "idle"

\* C40: whatever defaultMaxIterations the queue is configured with, every
\* open PR stored with action max_iterations_reached is in the result of
\* the max_iterations_reached query
C40_CapsAgree ==
    \A p \in Items :
        (/\ store[p].exists
         /\ Casefold(store[p].github_state) = "open"
         /\ store[p].action = "max_iterations_reached")
          => LET prs == query("max_iterations_reached", QUERY_LIMIT).prs
             IN \E k \in DOMAIN prs : prs[k].pr = p

TypeOK ==
    /\ \A p \in Items : store[p].iteration \in 0..(MAX_ITERATIONS + 1)
    /\ sync.pc \in {"idle", "prs", "save"}
    /\ sched.driver \in {"idle", "task", "cycle", "bot"}
    /\ now \in 0..MaxClock
    /\ \A a \in Invocations : procs[a].pc \in {"off", "start", "acquire", "repos", "log", "done", "aborted", "dead"}

====
